---- MODULE Spec2Model ----
(***************************************************************************)
(* Model of redis_idgen (src/redis_idgen/redis_idgen.go): concurrent      *)
(* GenMultiIDs calls against one shared counter store.                     *)
(*                                                                         *)
(* Go int64 values that do not fit TLC's 32-bit integers (the millisecond  *)
(* timestamps, the seconds and the identifiers) are held as four 16-bit    *)
(* limbs <<w3, w2, w1, w0>>, most significant first, in two's complement.  *)
(* Counters, deltas and server ids are small and are plain integers.       *)
(***************************************************************************)
EXTENDS Integers, Sequences, FiniteSets, TLC

(***************************************************************************)
(* Bounds of the model.                                                    *)
(***************************************************************************)
\* number of concurrent GenMultiIDs callers sharing the store
NumCallers == 2

(***************************************************************************)
(* Program constants.                                                      *)
(***************************************************************************)
maxCounter == (2 ^ 8) - 1

maxTimeAddrTimes == 8

(***************************************************************************)
(* 64-bit two's-complement arithmetic on limbs.                            *)
(***************************************************************************)
W == 2 ^ 16

Zero64 == <<0, 0, 0, 0>>

\* int64(n) for a small integer n (|n| < 2^31), sign-extended
FromInt(n) ==
  LET hi == IF n < 0 THEN W - 1 ELSE 0
  IN  <<hi, hi, (n \div W) % W, n % W>>

Neg64(a) == a[1] >= 2 ^ 15

\* a + b, wrapping modulo 2^64
Add64(a, b) ==
  LET s4 == a[4] + b[4]
      s3 == a[3] + b[3] + (s4 \div W)
      s2 == a[2] + b[2] + (s3 \div W)
      s1 == a[1] + b[1] + (s2 \div W)
  IN  <<s1 % W, s2 % W, s3 % W, s4 % W>>

Inc64(a) == Add64(a, FromInt(1))

\* a << k for 0 <= k < 64, bits shifted out at the top are lost
Shl64(a, k) ==
  LET q == k \div 16
      m == 2 ^ (k % 16)
      l == [i \in 1..4 |-> IF i + q <= 4 THEN a[i + q] ELSE 0]
      p4 == l[4] * m
      p3 == l[3] * m + (p4 \div W)
      p2 == l[2] * m + (p3 \div W)
      p1 == l[1] * m + (p2 \div W)
  IN  <<p1 % W, p2 % W, p3 % W, p4 % W>>

\* a >> k on a signed int64 (arithmetic shift: the sign bit is replicated)
Sar64(a, k) ==
  LET q == k \div 16
      r == k % 16
      fill == IF Neg64(a) THEN W - 1 ELSE 0
      l == [i \in 0..4 |-> IF i - q >= 1 THEN a[i - q] ELSE fill]
  IN  [i \in 1..4 |-> (l[i] \div (2 ^ r)) + (l[i - 1] % (2 ^ r)) * (2 ^ (16 - r))]

\* a & (2^k - 1)
AndMask64(a, k) ==
  [i \in 1..4 |->
     LET lo == 16 * (4 - i)
     IN  IF k >= lo + 16 THEN a[i]
         ELSE IF k <= lo THEN 0
         ELSE a[i] % (2 ^ (k - lo))]

\* signed a < b
Lt64(a, b) ==
  IF Neg64(a) # Neg64(b) THEN Neg64(a)
  ELSE \E i \in 1..4 : a[i] < b[i] /\ \A j \in 1..(i - 1) : a[j] = b[j]

Leq64(a, b) == a = b \/ Lt64(a, b)

\* a / d and a % d for a >= 0 and 0 < d < 2^15 (schoolbook long division)
Div64(a, d) ==
  LET c1 == a[1]
      c2 == (c1 % d) * W + a[2]
      c3 == (c2 % d) * W + a[3]
      c4 == (c3 % d) * W + a[4]
  IN  <<c1 \div d, c2 \div d, c3 \div d, c4 \div d>>

Mod64(a, d) ==
  LET c2 == (a[1] % d) * W + a[2]
      c3 == (c2 % d) * W + a[3]
      c4 == (c3 % d) * W + a[4]
  IN  FromInt(c4 % d)

\* the value of a 64-bit word known to lie in 0 .. 2^31 - 1
ToInt(a) == (a[3] % (2 ^ 15)) * W + a[4]

(***************************************************************************)
(* Configuration and inputs.                                               *)
(***************************************************************************)
Callers == 1 .. NumCallers

\* generator.serverIDs: the configured pool.  NewIDGenerator only rejects an
\* empty pool, so a pool may hold an id that does not fit 14 bits.
serverIDs == <<5, 16383, 16389>>

\* generator.namespace: never assigned, the zero value ""
namespace == ""

\* the counts callers ask for
CountChoices == {1, 3, 5}

\* 2^31 * 1000 ms: the first millisecond whose seconds need bit 31
TWrap == <<0, 500, 0, 0>>

\* 2^32 * 1000 ms: the first millisecond whose seconds do not fit 32 bits
TFar == <<0, 1000, 0, 0>>

\* what timeMS() may return to concurrent callers: two consecutive
\* milliseconds, the last one whose seconds are below 2^31 and the first above
ClockReadings == {Add64(TWrap, FromInt(-1)), TWrap}

\* what timeMS() may return to a caller running alone: three consecutive
\* milliseconds and a far-future one, so that between the two readings of one
\* iteration the clock can step back across lastMs (t1 > lastMs >= t2)
SoloClock == ClockReadings \cup {Inc64(TWrap), TFar}

\* the counts a caller running alone asks for
SoloCounts == CountChoices \cup {300}

\* the totals a bucket is set back to when the store loses or rewinds it
TamperValues == {0, -2}

VARIABLES
  call,      \* call[c]: the locals of caller c's GenMultiIDs invocation
  store,     \* counter store: bucket key -> integer
  ttl,       \* keys whose expiry has been set
  ttlCalls,  \* bucket key -> number of Expire calls issued on it
  log        \* log[c]: one record per increment call issued by c's invocation

vars == <<call, store, ttl, ttlCalls, log>>

(***************************************************************************)
(* Helpers of GenMultiIDs.                                                 *)
(***************************************************************************)
\* fmt.Sprintf("id_generator:%v:%v:%v", space, serverID, ms)
counterKey(space, serverID, ms) == <<"id_generator", space, serverID, ms>>

\* g.serverIDs[r.Int64()] for r drawn from 0 .. len-1
pickServerID(r) == serverIDs[r + 1]

\* the value IncrBy returns and the store it leaves
StoreGetFresh(s, key) == 0

StoreGet(s, key) == IF key \in DOMAIN s THEN s[key] ELSE 0

StoreIncrBy(s, key, num) ==
  [k \in DOMAIN s \cup {key} |-> IF k = key THEN StoreGet(s, key) + num ELSE s[k]]

\* (seconds)<<32 + (millis)<<22 + i<<14 + serverID
MakeIDShift13(seconds, millis, i, serverID) ==
  Add64(Add64(Add64(Shl64(seconds, 32), Shl64(millis, 22)),
              Shl64(FromInt(i), 13)),
        FromInt(serverID))

MakeID(seconds, millis, i, serverID) ==
  Add64(Add64(Add64(Shl64(seconds, 32), Shl64(millis, 22)),
              Shl64(FromInt(i), 14)),
        FromInt(serverID))

\* return nil, err
FailPartial(st, e) == [st EXCEPT !.pc = "done", !.ret = st.ids, !.err = e, !.out = e]

Fail(st, e) == [st EXCEPT !.pc = "done", !.ret = <<>>, !.err = e, !.out = e]

\* the check after the loop and the two returns that follow it
ReturnUnchecked(st) == [st EXCEPT !.pc = "done", !.ret = st.ids, !.err = "none"]

Return(st) ==
  IF Len(st.ids) < st.counts \/ st.leftNum # 0
    THEN [st EXCEPT !.pc = "done", !.ret = <<>>, !.err = "exhaust"]
    ELSE [st EXCEPT !.pc = "done", !.ret = st.ids, !.err = "none"]

\* idx++ and the loop condition
LoopNextOneMore(st) ==
  LET s1 == [st EXCEPT !.idx = @ + 1]
  IN  IF s1.leftNum > 0 /\ s1.idx <= maxTimeAddrTimes
        THEN [s1 EXCEPT !.pc = "loop"]
        ELSE Return(s1)

LoopNext(st) ==
  LET s1 == [st EXCEPT !.idx = @ + 1]
  IN  IF s1.leftNum > 0 /\ s1.idx < maxTimeAddrTimes
        THEN [s1 EXCEPT !.pc = "loop"]
        ELSE Return(s1)

\* ms of one iteration from the two clock readings t1 (compared) and t2 (taken)
NextMs(lastMs, t1, t2) ==
  LET ms == IF Lt64(lastMs, t1) THEN t2 ELSE lastMs
  IN  IF Leq64(ms, lastMs) THEN Inc64(ms) ELSE ms

\* seconds&0xFFFFFFFF == seconds
SecondsFit(seconds) == AndMask64(seconds, 32) = seconds

\* serverID&0x3FFF == serverID
ServerIDUnchecked(serverID) == TRUE

ServerIDFits(serverID) == AndMask64(FromInt(serverID), 14) = FromInt(serverID)

\* start = counter - leftNum
StartFromCounts(st) == st.counter - st.counts

StartOf(st) == st.counter - st.leftNum

\* start > maxCounter: the bucket was full before this increment
DiscardNever(start) == FALSE

Discarded(start) == start > maxCounter

\* counter < leftNum: the bucket's total shrank
RecycledNegative(counter, leftNum) == counter < 0

RecycledOrEqual(counter, leftNum) == counter <= leftNum

Recycled(counter, leftNum) == counter < leftNum

\* end and leftNum after the split at maxCounter
EndNoCap(counter) == counter

EndOf(counter) == IF counter > maxCounter THEN maxCounter + 1 ELSE counter

LeftOffByOne(counter) == IF counter > maxCounter THEN counter - maxCounter ELSE 0

LeftOf(counter) == IF counter > maxCounter THEN counter - maxCounter - 1 ELSE 0

\* the loop body after the increment (and the expire) returned
AfterIncr(st) ==
  LET counter == st.counter
      start == StartOf(st)
  IN  IF Discarded(start)
        THEN LoopNext([st EXCEPT !.out = "discard"])
      ELSE IF Recycled(counter, st.leftNum)
        THEN Fail(st, "recycle")
      ELSE
        LET end == EndOf(counter)
            seconds == Div64(st.lastMs, 1000)
            millis == Mod64(st.lastMs, 1000)
            s1 == [st EXCEPT !.leftNum = LeftOf(counter)]
        IN  IF ~SecondsFit(seconds) THEN Fail(s1, "seconds")
            ELSE IF ~ServerIDFits(st.serverID) THEN Fail(s1, "serverid")
            ELSE LoopNext([s1 EXCEPT
                   !.out = "emit",
                   !.ids = @ \o [j \in 1 .. (end - start) |->
                                   MakeID(seconds, millis, start + j - 1, st.serverID)]])

\* the loop body after g.expire returned: expire has no result, the error of
\* the client's Expire is dropped inside it
AfterExpireSurfaced(st, ok) == IF ok THEN AfterIncr(st) ELSE Fail(st, "store")

AfterExpire(st, ok) == AfterIncr(st)

\* GenID once its GenMultiIDs(ctx, 1) has returned: 0 and a wrapped error, or
\* ids[0] and nil; a frame entered through GenMultiIDs is left as it is
GenIDReturnNoCheck(st) ==
  IF st.api = "GenID" /\ st.pc = "done"
    THEN [st EXCEPT !.id = IF st.ret = <<>> THEN Zero64 ELSE st.ret[1], !.iderr = "none"]
    ELSE st

GenIDReturn(st) ==
  IF st.api = "GenID" /\ st.pc = "done"
    THEN IF st.err # "none"
           THEN [st EXCEPT !.id = Zero64, !.iderr = "failed to generate id"]
           ELSE [st EXCEPT !.id = st.ret[1], !.iderr = "none"]
    ELSE st

\* the record of one bucket attempt: st before it, s2 after it
LogEntry(st, s2, ms, applied) ==
  [ms |-> ms, delta |-> st.leftNum, applied |-> applied,
   counter |-> s2.counter, out |-> s2.out,
   n |-> Len(s2.ids) - Len(st.ids), left |-> s2.leftNum]

(***************************************************************************)
(* State machine.                                                          *)
(***************************************************************************)
IdleCall ==
  [pc |-> "idle", counts |-> 0, serverID |-> 0, leftNum |-> 0, lastMs |-> Zero64,
   idx |-> 0, ids |-> <<>>, counter |-> 0, out |-> "", ret |-> <<>>, err |-> "",
   api |-> "", id |-> Zero64, iderr |-> ""]

\* the store as earlier callers left it: the buckets of the pool's first server
\* id hold 253 (three short of full), every other bucket is fresh
NearFull ==
  [k \in {counterKey(namespace, serverIDs[1], t) : t \in ClockReadings} |-> maxCounter - 2]

Init ==
  /\ call = [c \in Callers |-> IdleCall]
  /\ store = NearFull
  /\ ttl = {}
  /\ ttlCalls = <<>>
  /\ log = [c \in Callers |-> <<>>]

\* GenMultiIDs up to the loop: the locals and the server id pick
Enter(counts, r) ==
  LET st == [IdleCall EXCEPT !.counts = counts, !.leftNum = counts,
                             !.serverID = pickServerID(r)]
  IN  IF st.leftNum > 0 /\ st.idx < maxTimeAddrTimes
        THEN [st EXCEPT !.pc = "loop"]
        ELSE Return(st)

GenMultiIDs(c, counts, r) ==
  /\ call[c].pc = "idle"
  /\ call' = [call EXCEPT ![c] = Enter(counts, r)]
  /\ UNCHANGED <<store, ttl, ttlCalls, log>>

\* rand.Int fails: "failed to pick server id"
PickFails(c, counts) ==
  /\ call[c].pc = "idle"
  /\ call' = [call EXCEPT ![c] =
       Fail([IdleCall EXCEPT !.counts = counts, !.leftNum = counts], "pick")]
  /\ UNCHANGED <<store, ttl, ttlCalls, log>>

\* GenID: g.GenMultiIDs(ctx, 1) entered from GenID, up to the loop
GenID(c, r) ==
  /\ call[c].pc = "idle"
  /\ call' = [call EXCEPT ![c] = GenIDReturn([Enter(1, r) EXCEPT !.api = "GenID"])]
  /\ UNCHANGED <<store, ttl, ttlCalls, log>>

\* GenID whose GenMultiIDs(ctx, 1) fails to pick a server id
GenIDPickFails(c) ==
  /\ call[c].pc = "idle"
  /\ call' = [call EXCEPT ![c] =
       GenIDReturn(Fail([IdleCall EXCEPT !.counts = 1, !.leftNum = 1,
                                         !.api = "GenID"], "pick"))]
  /\ UNCHANGED <<store, ttl, ttlCalls, log>>

\* one iteration up to the increment's reply: the clock is read twice, the
\* bucket is incremented; with start # 0 the iteration runs to its end
Incr(c, t1, t2) ==
  /\ call[c].pc = "loop"
  /\ LET st == call[c]
         ms == NextMs(st.lastMs, t1, t2)
         key == counterKey(namespace, st.serverID, ms)
         s1 == [st EXCEPT !.lastMs = ms, !.counter = StoreGet(store, key) + st.leftNum]
         s2 == IF StartOf(s1) = 0
                 THEN [s1 EXCEPT !.pc = "expire", !.out = "pending"]
                 ELSE AfterIncr(s1)
     IN  /\ store' = StoreIncrBy(store, key, st.leftNum)
         /\ call' = [call EXCEPT ![c] = GenIDReturn(s2)]
         /\ log' = [log EXCEPT ![c] = Append(@, LogEntry(st, s2, ms, TRUE))]
  /\ UNCHANGED <<ttl, ttlCalls>>

\* the increment returns an error (transport failure, cancellation); the
\* store may or may not have applied it
IncrFails(c, t1, t2, applied) ==
  /\ call[c].pc = "loop"
  /\ LET st == call[c]
         ms == NextMs(st.lastMs, t1, t2)
         key == counterKey(namespace, st.serverID, ms)
         s2 == Fail([st EXCEPT !.lastMs = ms], "store")
     IN  /\ store' = IF applied THEN StoreIncrBy(store, key, st.leftNum) ELSE store
         /\ call' = [call EXCEPT ![c] = GenIDReturn(s2)]
         /\ log' = [log EXCEPT ![c] = Append(@, LogEntry(st, s2, ms, applied))]
  /\ UNCHANGED <<ttl, ttlCalls>>

\* g.expire after an increment with start = 0, then the rest of the iteration;
\* the result of Expire is dropped
Expire(c, ok) ==
  /\ call[c].pc = "expire"
  /\ LET st == call[c]
         key == counterKey(namespace, st.serverID, st.lastMs)
         s2 == AfterExpire(st, ok)
     IN  /\ ttl' = IF ok THEN ttl \cup {key} ELSE ttl
         /\ ttlCalls' = [k \in DOMAIN ttlCalls \cup {key} |->
                           IF k = key
                             THEN (IF key \in DOMAIN ttlCalls THEN ttlCalls[key] ELSE 0) + 1
                             ELSE ttlCalls[k]]
         /\ call' = [call EXCEPT ![c] = GenIDReturn(s2)]
         /\ log' = [log EXCEPT ![c] =
                      [@ EXCEPT ![Len(@)] =
                         [@ EXCEPT !.out = s2.out, !.left = s2.leftNum,
                                   !.n = Len(s2.ids) - Len(st.ids)]]]
  /\ UNCHANGED store

Next ==
  \/ \E c \in Callers, n \in CountChoices, r \in 0 .. (Len(serverIDs) - 1) :
       GenMultiIDs(c, n, r)
  \/ \E c \in Callers, n \in CountChoices : PickFails(c, n)
  \/ \E c \in Callers, t1 \in ClockReadings, t2 \in ClockReadings : Incr(c, t1, t2)
  \/ \E c \in Callers, t1 \in ClockReadings, t2 \in ClockReadings, a \in BOOLEAN :
       IncrFails(c, t1, t2, a)
  \/ \E c \in Callers, ok \in BOOLEAN : Expire(c, ok)

Spec == Init /\ [][Next]_vars

\* one caller alone, with a clock that may step back and with large batches
NextSolo ==
  \/ \E n \in SoloCounts, r \in 0 .. (Len(serverIDs) - 1) : GenMultiIDs(1, n, r)
  \/ \E n \in SoloCounts : PickFails(1, n)
  \/ \E t1 \in SoloClock, t2 \in SoloClock : Incr(1, t1, t2)
  \/ \E t1 \in SoloClock, t2 \in SoloClock, a \in BOOLEAN : IncrFails(1, t1, t2, a)
  \/ \E ok \in BOOLEAN : Expire(1, ok)

SpecSolo == Init /\ [][NextSolo]_vars

\* concurrent callers of GenID and of GenMultiIDs
NextGenID ==
  \/ \E c \in Callers, r \in 0 .. (Len(serverIDs) - 1) : GenID(c, r)
  \/ \E c \in Callers : GenIDPickFails(c)
  \/ \E c \in Callers, n \in CountChoices, r \in 0 .. (Len(serverIDs) - 1) :
       GenMultiIDs(c, n, r)
  \/ \E c \in Callers, n \in CountChoices : PickFails(c, n)
  \/ \E c \in Callers, t1 \in ClockReadings, t2 \in ClockReadings : Incr(c, t1, t2)
  \/ \E c \in Callers, t1 \in ClockReadings, t2 \in ClockReadings, a \in BOOLEAN :
       IncrFails(c, t1, t2, a)
  \/ \E c \in Callers, ok \in BOOLEAN : Expire(c, ok)

SpecGenID == Init /\ [][NextGenID]_vars

\* concurrent callers whose server id or whose seconds may not fit, on
\* buckets that a batch of 300 saturates
WidthCounts == {1, 300}

\* the last millisecond whose seconds fit 32 bits and the first that does not
WidthClock == {Add64(TFar, FromInt(-1)), TFar}

NextWidth ==
  \/ \E c \in Callers, n \in WidthCounts, r \in 1 .. (Len(serverIDs) - 1) :
       GenMultiIDs(c, n, r)
  \/ \E c \in Callers, n \in WidthCounts : PickFails(c, n)
  \/ \E c \in Callers, t1 \in WidthClock, t2 \in WidthClock : Incr(c, t1, t2)
  \/ \E c \in Callers, t1 \in WidthClock, t2 \in WidthClock, a \in BOOLEAN :
       IncrFails(c, t1, t2, a)
  \/ \E c \in Callers, ok \in BOOLEAN : Expire(c, ok)

SpecWidth == Init /\ [][NextWidth]_vars

\* one caller alone, with a clock that steps back by more than a millisecond
\* between two readings, all of them in seconds below 2^31
EarlyClock ==
  {Add64(TWrap, FromInt(-4)), Add64(TWrap, FromInt(-2)), Add64(TWrap, FromInt(-1))}

NextEarly ==
  \/ \E n \in SoloCounts, r \in 0 .. (Len(serverIDs) - 1) : GenMultiIDs(1, n, r)
  \/ \E n \in SoloCounts : PickFails(1, n)
  \/ \E t1 \in EarlyClock, t2 \in EarlyClock : Incr(1, t1, t2)
  \/ \E t1 \in EarlyClock, t2 \in EarlyClock, a \in BOOLEAN : IncrFails(1, t1, t2, a)
  \/ \E ok \in BOOLEAN : Expire(1, ok)

SpecEarly == Init /\ [][NextEarly]_vars

\* one caller alone with a clock frozen at one millisecond, asking for up to
\* one identifier more than eight full buckets hold
TFrozen == Add64(TWrap, FromInt(-1))

FrozenCounts == {1, 256, 257, maxTimeAddrTimes * (maxCounter + 1),
                 maxTimeAddrTimes * (maxCounter + 1) + 1}

NextFrozen ==
  \/ \E n \in FrozenCounts, r \in 0 .. (Len(serverIDs) - 1) : GenMultiIDs(1, n, r)
  \/ \E n \in FrozenCounts : PickFails(1, n)
  \/ Incr(1, TFrozen, TFrozen)
  \/ \E a \in BOOLEAN : IncrFails(1, TFrozen, TFrozen, a)
  \/ \E ok \in BOOLEAN : Expire(1, ok)

SpecFrozen == Init /\ [][NextFrozen]_vars

\* the store loses a bucket (expiry, eviction) or rewinds it below zero
Tamper(key, v) ==
  /\ key \in DOMAIN store
  /\ store[key] > v
  /\ store' = [store EXCEPT ![key] = v]
  /\ UNCHANGED <<call, ttl, ttlCalls, log>>

NextTamper ==
  \/ \E n \in CountChoices, r \in 0 .. (Len(serverIDs) - 1) : GenMultiIDs(1, n, r)
  \/ \E n \in CountChoices : PickFails(1, n)
  \/ \E t1 \in SoloClock, t2 \in SoloClock : Incr(1, t1, t2)
  \/ \E t1 \in SoloClock, t2 \in SoloClock, a \in BOOLEAN : IncrFails(1, t1, t2, a)
  \/ \E ok \in BOOLEAN : Expire(1, ok)
  \/ \E key \in DOMAIN store, v \in TamperValues : Tamper(key, v)

SpecTamper == Init /\ [][NextTamper]_vars

(***************************************************************************)
(* Vocabulary of the properties.                                           *)
(***************************************************************************)
Range(s) == {s[i] : i \in DOMAIN s}

Done(c) == call[c].pc = "done"

Succeeded(c) == Done(c) /\ call[c].err = "none"

Errored(c) == Done(c) /\ call[c].err # "none"

FatalErrors == {"pick", "store", "recycle", "seconds", "serverid"}

\* where each identifier collected by a call comes from: the bucket's ms and
\* the counter index, attempt by attempt in the order of the log
RECURSIVE Origins(_)
Origins(lg) ==
  IF lg = <<>> THEN <<>>
  ELSE LET e == lg[Len(lg)]
       IN  Origins(SubSeq(lg, 1, Len(lg) - 1)) \o
             [j \in 1 .. e.n |-> [ms |-> e.ms, i |-> e.counter - e.delta + j - 1]]

\* decoders of an identifier, as Go computes them on an int64
DecSecondsSigned(id) == Sar64(id, 32)

DecSeconds(id) == AndMask64(Sar64(id, 32), 32)

DecMillis(id) == AndMask64(Sar64(id, 22), 10)

DecCounter(id) == AndMask64(Sar64(id, 14), 8)

DecServerID(id) == AndMask64(id, 14)

(***************************************************************************)
(* C1  A GenMultiIDs(ctx, n) call that returns without error returns       *)
(* exactly n identifiers, no two of them equal, whatever the clock read    *)
(* (stalled, advancing, stepping back) and whatever the buckets held.      *)
(***************************************************************************)
C1_ExactlyNDistinct ==
  \A c \in Callers :
    Succeeded(c) =>
      /\ Len(call[c].ret) = call[c].counts
      /\ Cardinality(Range(call[c].ret)) = Len(call[c].ret)

\* a successful batch of 300 that spilled over several buckets
C1_Witness ==
  \E c \in Callers :
    /\ Succeeded(c)
    /\ call[c].counts = 300
    /\ Len(log[c]) >= 3

(***************************************************************************)
(* C2  With a linearizable store whose counters are never reset, the sets  *)
(* of identifiers returned by two different successful calls are disjoint, *)
(* under every interleaving, server id pick and clock reading.             *)
(***************************************************************************)
C2_CallsDisjoint ==
  \A c, d \in Callers :
    (c # d /\ Succeeded(c) /\ Succeeded(d)) =>
      Range(call[c].ret) \cap Range(call[d].ret) = {}

\* two successful calls that drew from the same bucket, both spilling
C2_Witness ==
  \E c, d \in Callers :
    /\ c # d /\ Succeeded(c) /\ Succeeded(d)
    /\ call[c].serverID = call[d].serverID
    /\ Len(log[c]) >= 2 /\ Len(log[d]) >= 2
    /\ \E i \in DOMAIN log[c], j \in DOMAIN log[d] :
         /\ log[c][i].ms = log[d][j].ms
         /\ log[c][i].n > 0 /\ log[d][j].n > 0

(***************************************************************************)
(* C3  Every identifier of a successful call decodes to the fields it was  *)
(* built from: bits 32..63 read as an unsigned value, (id >> 32) &         *)
(* 0xFFFFFFFF, are ms/1000 of its bucket; (id >> 22) & 0x3FF is ms mod     *)
(* 1000, in 0..999; (id >> 14) & 0xFF is the counter index, in 0..255;     *)
(* id & 0x3FFF is the selected server id, an element of the pool.          *)
(***************************************************************************)
DecodesWith(c, DecSec(_)) ==
  LET o == Origins(log[c])
      st == call[c]
  IN  /\ Len(o) = Len(st.ret)
      /\ \A k \in DOMAIN st.ret :
           /\ DecSec(st.ret[k]) = Div64(o[k].ms, 1000)
           /\ DecMillis(st.ret[k]) = Mod64(o[k].ms, 1000)
           /\ ToInt(DecMillis(st.ret[k])) \in 0 .. 999
           /\ DecCounter(st.ret[k]) = FromInt(o[k].i)
           /\ o[k].i \in 0 .. 255
           /\ DecServerID(st.ret[k]) = FromInt(st.serverID)
           /\ st.serverID \in Range(serverIDs)

C3_DecodesUnsigned == \A c \in Callers : Succeeded(c) => DecodesWith(c, DecSeconds)

\* the claim as stated: id >> 32 on the signed identifier equals ms/1000
C3_DecodesSigned == \A c \in Callers : Succeeded(c) => DecodesWith(c, DecSecondsSigned)

\* a successful batch with identifiers from a second below 2^31 and from one
\* at 2^31, the latter negative
C3_Witness ==
  \E c \in Callers :
    /\ Succeeded(c)
    /\ \E k \in DOMAIN call[c].ret : Neg64(call[c].ret[k])
    /\ \E k \in DOMAIN call[c].ret : ~Neg64(call[c].ret[k])

(***************************************************************************)
(* C4  GenMultiIDs never returns a partial result: a call that returns an  *)
(* error (store error, recycling, bit width, exhaustion, server id pick)   *)
(* returns no identifiers, also when earlier attempts had produced some;   *)
(* and a failed increment is the last store call of its invocation.        *)
(***************************************************************************)
C4_NoPartialResult ==
  \A c \in Callers :
    /\ Errored(c) => call[c].ret = <<>>
    /\ \A i \in DOMAIN log[c] :
         log[c][i].out = "store" =>
           /\ i = Len(log[c])
           /\ Done(c) /\ call[c].err = "store"

\* an increment failed after an earlier bucket had produced identifiers
C4_Witness ==
  \E c \in Callers :
    /\ Errored(c) /\ call[c].err = "store"
    /\ Len(call[c].ids) > 0
    /\ Len(log[c]) >= 2

(***************************************************************************)
(* C5  A call that runs out of its 8 bucket attempts with demand left      *)
(* (leftNum # 0, which is the same as fewer than count identifiers         *)
(* collected) and without a fatal error fails with the exhaustion error    *)
(* and returns nothing; a call succeeds only with leftNum = 0, reached     *)
(* within 8 attempts.                                                      *)
(***************************************************************************)
C5_Exhaustion ==
  \A c \in Callers :
    (Done(c) /\ call[c].err \notin FatalErrors) =>
      /\ (call[c].leftNum # 0) <=> (Len(call[c].ids) < call[c].counts)
      /\ (call[c].leftNum # 0) <=> (call[c].err = "exhaust")
      /\ call[c].err = "exhaust" =>
           /\ call[c].ret = <<>>
           /\ Len(log[c]) = 8
      /\ call[c].err = "none" =>
           /\ call[c].leftNum = 0
           /\ Len(log[c]) <= 8

\* eight attempts used up, some identifiers collected, the call fails
C5_Witness ==
  \E c \in Callers :
    /\ Done(c) /\ call[c].err = "exhaust"
    /\ Len(call[c].ids) > 0
    /\ Len(log[c]) = 8

(***************************************************************************)
(* C6  Every GenMultiIDs call terminates after at most 8 increment calls   *)
(* to the counter store, however saturated the buckets are and however     *)
(* the clock behaves, provided each store call returns: a call never has   *)
(* more than 8 increments in its log, and every step of a call (a store    *)
(* call returning) strictly lowers a non-negative count of the store       *)
(* calls it may still make, which is 0 exactly when the call has returned. *)
(***************************************************************************)
\* an upper bound on the store calls (increments and expires) still ahead
StoreCallsLeft(st) ==
  CASE st.pc = "idle" -> 2 * 8 + 1
    [] st.pc = "loop" -> 2 * (8 - st.idx)
    [] st.pc = "expire" -> 2 * (8 - st.idx) - 1
    [] st.pc = "done" -> 0

C6_Terminates ==
  /\ [](\A c \in Callers :
          /\ Len(log[c]) <= 8
          /\ StoreCallsLeft(call[c]) >= 0
          /\ StoreCallsLeft(call[c]) = 0 <=> Done(c))
  /\ [][\A c \in Callers :
          call[c]' # call[c] =>
            /\ StoreCallsLeft(call[c]') < StoreCallsLeft(call[c])
            /\ Len(log[c]') <= Len(log[c]) + 1]_vars

\* a call that used all of its 8 increments, the last one on a full bucket
C6_Witness ==
  \E c \in Callers :
    /\ Done(c)
    /\ Len(log[c]) = 8
    /\ log[c][8].out = "discard"

(***************************************************************************)
(* C7  When the store returns a total smaller than the delta just          *)
(* requested (counter < leftNum), the call fails at once with the          *)
(* recycling error: that increment is its last store call, and it returns  *)
(* no identifiers, not even those of its earlier buckets.                  *)
(***************************************************************************)
C7_Recycling ==
  \A c \in Callers :
    \A i \in DOMAIN log[c] :
      (log[c][i].out # "store" /\ log[c][i].counter < log[c][i].delta) =>
        /\ log[c][i].out = "recycle"
        /\ log[c][i].n = 0
        /\ i = Len(log[c])
        /\ Done(c) /\ call[c].err = "recycle"
        /\ call[c].ret = <<>>

\* the recycling error after an earlier bucket had produced identifiers
C7_Witness ==
  \E c \in Callers :
    /\ Done(c) /\ call[c].err = "recycle"
    /\ Len(call[c].ids) > 0
    /\ log[c][Len(log[c])].counter >= 0

(***************************************************************************)
(* C8  A bucket attempt whose pre-increment value start = counter -        *)
(* leftNum exceeds 255 yields no identifiers and leaves leftNum as it      *)
(* was, while the bucket's total stays advanced by the requested delta.    *)
(***************************************************************************)
C8_DiscardedAttempt ==
  \A c \in Callers :
    \A i \in DOMAIN log[c] :
      LET e == log[c][i]
      IN  (e.out \notin {"store", "pending"} /\ e.counter - e.delta > 255) =>
            /\ e.out = "discard"
            /\ e.n = 0
            /\ e.left = e.delta
            /\ StoreGet(store, counterKey(namespace, call[c].serverID, e.ms)) >= e.counter

\* a call that lost an attempt to a bucket another caller had filled, then
\* got its identifiers from a later bucket
C8_Witness ==
  \E c \in Callers :
    /\ Succeeded(c)
    /\ \E i \in DOMAIN log[c] :
         /\ log[c][i].out = "discard"
         /\ log[c][i].counter - log[c][i].delta > 256

(***************************************************************************)
(* C9  An attempt that asks for k from a bucket whose total is t, with     *)
(* t + k <= 256, emits exactly the counters t .. t+k-1; so two calls made  *)
(* one after the other with the same server id in the same millisecond on  *)
(* a fresh bucket, asking for a and then b with a + b <= 256, get the      *)
(* counters 0 .. a-1 and then a .. a+b-1.                                  *)
(***************************************************************************)
\* the counters carried by the identifiers c collected in its i-th attempt
CountersOf(c, i) ==
  LET off == Len(Origins(SubSeq(log[c], 1, i - 1)))
  IN  [j \in 1 .. log[c][i].n |-> DecCounter(call[c].ids[off + j])]

Consecutive(t, k) == [j \in 1 .. k |-> FromInt(t + j - 1)]

C9_ContiguousCounters ==
  /\ \A c \in Callers :
       \A i \in DOMAIN log[c] :
         LET e == log[c][i]
             t == e.counter - e.delta
         IN  (e.out \notin {"store", "pending", "seconds", "serverid"} /\ e.counter <= 256) =>
               /\ e.out = "emit"
               /\ e.n = e.delta /\ e.left = 0
               /\ CountersOf(c, i) = Consecutive(t, e.delta)
  /\ \A c, d \in Callers :
       ( /\ c # d /\ Succeeded(c) /\ Succeeded(d)
         /\ call[c].serverID = call[d].serverID
         /\ Len(log[c]) = 1 /\ Len(log[d]) = 1
         /\ log[c][1].ms = log[d][1].ms
         /\ counterKey(namespace, call[c].serverID, log[c][1].ms) \notin DOMAIN NearFull
         /\ log[c][1].counter = log[c][1].delta
         /\ call[c].counts + call[d].counts <= 256
         /\ \A x \in Callers \ {c, d} : \A i \in DOMAIN log[x] :
              call[x].serverID = call[c].serverID => log[x][i].ms # log[c][1].ms ) =>
         /\ CountersOf(c, 1) = Consecutive(0, call[c].counts)
         /\ CountersOf(d, 1) = Consecutive(call[c].counts, call[d].counts)

\* 5 and then 3 from one fresh bucket: counters 0..4, then 5..7
C9_Witness ==
  \E c, d \in Callers :
    /\ c # d /\ Succeeded(c) /\ Succeeded(d)
    /\ call[c].counts = 5 /\ call[d].counts = 3
    /\ call[c].serverID = call[d].serverID
    /\ Len(log[c]) = 1 /\ Len(log[d]) = 1
    /\ log[c][1].ms = log[d][1].ms
    /\ log[c][1].counter = 5
    /\ CountersOf(d, 1) = <<FromInt(5), FromInt(6), FromInt(7)>>

(***************************************************************************)
(* C10  A single call for more than 256 identifiers on buckets nobody      *)
(* else uses takes counters 0..255 from its first bucket and carries       *)
(* counter - 256 into a later one; when it succeeds it returns exactly     *)
(* the requested number of distinct identifiers, from at least two         *)
(* millisecond buckets; when 8 attempts do not satisfy it, it returns the  *)
(* exhaustion error.                                                       *)
(***************************************************************************)
C10_LargeBatch ==
  \A c \in Callers :
    (call[c].counts > 256 /\ call[c].serverID = serverIDs[2]) =>
      /\ (Len(log[c]) >= 1 /\ log[c][1].out = "emit") =>
           /\ log[c][1].n = 256
           /\ log[c][1].left = log[c][1].counter - 256
           /\ CountersOf(c, 1) = Consecutive(0, 256)
      /\ Succeeded(c) =>
           /\ Len(call[c].ret) = call[c].counts
           /\ Cardinality(Range(call[c].ret)) = call[c].counts
           /\ Cardinality({log[c][i].ms : i \in {j \in DOMAIN log[c] : log[c][j].n > 0}}) >= 2
      /\ (Done(c) /\ call[c].err \notin FatalErrors /\ call[c].leftNum # 0) =>
           /\ call[c].err = "exhaust"
           /\ call[c].ret = <<>>
           /\ Len(log[c]) = 8

\* 300 identifiers from exactly two buckets: 256 and 44
C10_Witness ==
  \E c \in Callers :
    /\ Succeeded(c)
    /\ call[c].counts = 300 /\ call[c].serverID = serverIDs[2]
    /\ Len(log[c]) = 2
    /\ log[c][1].n = 256 /\ log[c][2].n = 44

\* the identifiers handed to callers so far: those of the calls that returned
\* without error
IssuedIDs == UNION {Range(call[c].ret) : c \in {d \in Callers : Succeeded(d)}}

\* the issued identifiers that decode to the triple of bucket key
IssuedIn(key) ==
  {id \in IssuedIDs :
     /\ DecServerID(id) = FromInt(key[3])
     /\ DecSeconds(id) = Div64(key[4], 1000)
     /\ DecMillis(id) = Mod64(key[4], 1000)}

IssuedCounters(key) == {ToInt(DecCounter(id)) : id \in IssuedIn(key)}

\* how many issued identifiers, with multiplicity, fall in the triple of key
IssuedCount(key) ==
  Cardinality(UNION {{<<c, k>> : k \in {j \in DOMAIN call[c].ret :
                                              call[c].ret[j] \in IssuedIn(key)}} :
                     c \in {d \in Callers : Succeeded(d)}})

\* the buckets nobody had touched before the calls of this run
FreshKeys == DOMAIN store \ DOMAIN NearFull

(***************************************************************************)
(* C11  As stated: in every reachable state, the counters carried by the   *)
(* identifiers issued for one (serverId, seconds, millis) triple are       *)
(* pairwise distinct and are exactly a range 0 .. k-1 with k <= 256.       *)
(***************************************************************************)
C11_ContiguousFromZero ==
  \A key \in FreshKeys :
    LET cs == IssuedCounters(key)
    IN  /\ Cardinality(cs) = IssuedCount(key)
        /\ Cardinality(cs) <= maxCounter + 1
        /\ cs = 0 .. (Cardinality(cs) - 1)

(***************************************************************************)
(* C11  Amended: in every reachable state, with a store whose counters are *)
(* never reset, the counters carried by the identifiers issued for one     *)
(* triple are pairwise distinct and drawn from the range 0 .. k-1, where   *)
(* k is the smaller of the bucket's stored total and 256; every issued     *)
(* identifier belongs to the triple of a bucket of the store.  The range   *)
(* need not be covered: counters claimed by a call that failed or has not  *)
(* returned yet are issued to nobody.                                      *)
(***************************************************************************)
C11_DrawnFromRange ==
  /\ \A key \in DOMAIN store :
       LET cs == IssuedCounters(key)
           k  == IF store[key] > maxCounter THEN maxCounter + 1 ELSE store[key]
       IN  /\ Cardinality(cs) = IssuedCount(key)
           /\ cs \subseteq 0 .. (k - 1)
  /\ \A id \in IssuedIDs : \E key \in DOMAIN store : id \in IssuedIn(key)

\* two successful calls, of 5 and of 3 identifiers, share the triple of a
\* fresh bucket
C11_Witness ==
  \E key \in FreshKeys :
    /\ \E c, d \in Callers :
         /\ c # d /\ Succeeded(c) /\ Succeeded(d)
         /\ Range(call[c].ret) \cap IssuedIn(key) # {}
         /\ Range(call[d].ret) \cap IssuedIn(key) # {}
    /\ IssuedCounters(key) = 0 .. 7

(***************************************************************************)
(* C12  GenID behaves as GenMultiIDs with count 1: its frame asks the      *)
(* store for one identifier per attempt and nothing else, it returns       *)
(* element 0 of what GenMultiIDs(ctx, 1) returns, and it returns an error, *)
(* with identifier 0, exactly when GenMultiIDs(ctx, 1) returns an error.   *)
(***************************************************************************)
C12_GenIDRefines ==
  \A c \in Callers :
    call[c].api = "GenID" =>
      /\ call[c].counts = 1
      /\ \A k \in DOMAIN log[c] : log[c][k].delta = 1
      /\ ~Done(c) => call[c].iderr = ""
      /\ Done(c) =>
           /\ call[c].iderr # ""
           /\ (call[c].iderr # "none") <=> (call[c].err # "none")
           /\ call[c].err = "none" =>
                /\ Len(call[c].ret) = 1
                /\ call[c].id = call[c].ret[1]
           /\ call[c].err # "none" => call[c].id = Zero64

\* a GenID returned an identifier after a discarded attempt
C12_Witness ==
  \E c \in Callers :
    /\ call[c].api = "GenID" /\ Done(c) /\ call[c].iderr = "none"
    /\ Len(log[c]) >= 2 /\ log[c][1].out = "discard"
    /\ call[c].id # Zero64

(***************************************************************************)
(* C13  Within one call the milliseconds used by successive attempts are   *)
(* strictly increasing, whatever the previous attempt did and whatever     *)
(* the clock read, so one call never increments the same bucket key twice. *)
(***************************************************************************)
C13_MsStrictlyIncreasing ==
  \A c \in Callers :
    \A k \in 1 .. (Len(log[c]) - 1) : Lt64(log[c][k].ms, log[c][k + 1].ms)

\* attempt k of caller c got a total back from the store and ran to its end
Replied(c, k) ==
  /\ log[c][k].applied
  /\ log[c][k].out \notin {"pending", "store"}

\* the seconds of attempt k are 2^32 or more
SecondsTooWide(c, k) == Leq64(<<0, 1, 0, 0>>, Div64(log[c][k].ms, 1000))

\* the server id of the call is outside 0 .. 2^14 - 1
ServerIDTooWide(c) == call[c].serverID \notin 0 .. (2 ^ 14 - 1)

BadWidth(c, k) == ServerIDTooWide(c) \/ SecondsTooWide(c, k)

\* the call of c failed at attempt k with the bit-width error, made no later
\* store call and returned nothing
WidthFailure(c, k) ==
  /\ Done(c)
  /\ call[c].err = (IF SecondsTooWide(c, k) THEN "seconds" ELSE "serverid")
  /\ call[c].ret = <<>>
  /\ k = Len(log[c])
  /\ log[c][k].n = 0

(***************************************************************************)
(* C14  As stated: whenever the selected server id does not fit 14 bits or *)
(* the attempt's seconds do not fit 32 unsigned bits, the call fails with  *)
(* the bit-width overflow error, is not retried in a later bucket and      *)
(* returns no identifiers.                                                 *)
(***************************************************************************)
C14_WidthAlwaysFatal ==
  \A c \in Callers :
    \A k \in DOMAIN log[c] :
      (Replied(c, k) /\ BadWidth(c, k)) => WidthFailure(c, k)

(***************************************************************************)
(* C14  Amended: whenever the server id does not fit 14 bits or the        *)
(* attempt's seconds do not fit 32 unsigned bits, and the attempt is       *)
(* neither discarded (start <= 255) nor recycled (counter >= leftNum),     *)
(* the call fails at that attempt with the bit-width overflow error,       *)
(* makes no later store call and returns no identifiers.                   *)
(***************************************************************************)
C14_WidthFatalUnlessDiscarded ==
  \A c \in Callers :
    \A k \in DOMAIN log[c] :
      ( /\ Replied(c, k) /\ BadWidth(c, k)
        /\ log[c][k].counter - log[c][k].delta <= maxCounter
        /\ log[c][k].counter >= log[c][k].delta )
      => WidthFailure(c, k)

\* a call with a server id that does not fit was discarded on a saturated
\* bucket, went on to a later bucket and failed there
C14_Witness ==
  \E c \in Callers :
    /\ ServerIDTooWide(c)
    /\ Len(log[c]) = 2
    /\ log[c][1].counter - log[c][1].delta > maxCounter
    /\ Replied(c, 2) /\ WidthFailure(c, 2)

\* the attempts, over all callers, that got key's total back from the store
\* with a pre-increment value of 0 and went past the expire call
CreatingAttempts(key) ==
  {<<c, k>> \in Callers \X (1 .. maxTimeAddrTimes) :
     /\ k <= Len(log[c])
     /\ counterKey(namespace, call[c].serverID, log[c][k].ms) = key
     /\ log[c][k].applied /\ log[c][k].out \notin {"pending", "store"}
     /\ log[c][k].counter - log[c][k].delta = 0}

ExpireCalls(key) == IF key \in DOMAIN ttlCalls THEN ttlCalls[key] ELSE 0

(***************************************************************************)
(* C15  With linearizable increments of positive deltas and no reset, the  *)
(* expiry of a bucket key is set only by an attempt whose pre-increment    *)
(* value was 0: over all concurrent callers at most one attempt ever sets  *)
(* the expiry of a key, and no later increment refreshes it.               *)
(***************************************************************************)
C15_ExpireOnce ==
  /\ \A key \in DOMAIN store \cup DOMAIN ttlCalls :
       /\ ExpireCalls(key) = Cardinality(CreatingAttempts(key))
       /\ ExpireCalls(key) <= 1
  /\ ttl \subseteq DOMAIN ttlCalls

\* the expiry of a bucket was set once, and another caller incremented the
\* bucket after that
C15_Witness ==
  \E key \in DOMAIN ttlCalls :
    /\ key \in ttl
    /\ ttlCalls[key] = 1
    /\ \E c, d \in Callers :
         /\ c # d /\ Done(c) /\ Done(d)
         /\ <<c, 1>> \in CreatingAttempts(key)
         /\ Len(log[d]) >= 1
         /\ counterKey(namespace, call[d].serverID, log[d][Len(log[d])].ms) = key
         /\ log[d][Len(log[d])].counter > log[c][1].counter

(***************************************************************************)
(* C16  A failure of Expire is swallowed: the step that follows the expire *)
(* call leaves the same locals, the same identifiers or the same error,    *)
(* whether the expiry write succeeded or failed; it never turns into a     *)
(* store error of the call, and it leaves the counters as they were.       *)
(***************************************************************************)
C16_ExpireSwallowed ==
  [][\A c \in Callers :
       (call[c].pc = "expire" /\ call'[c] # call[c]) =>
         /\ call'[c] = GenIDReturn(AfterIncr(call[c]))
         /\ call'[c].err # "store"
         /\ store' = store]_vars

\* a call returned its identifiers although the expiry write of the bucket it
\* created had failed
C16_Witness ==
  \E c \in Callers :
    /\ Succeeded(c)
    /\ Len(call[c].ret) = call[c].counts
    /\ LET key == counterKey(namespace, call[c].serverID, log[c][1].ms)
       IN  /\ log[c][1].counter = log[c][1].delta
           /\ ExpireCalls(key) = 1
           /\ key \notin ttl

(***************************************************************************)
(* C17  The identifiers of every successful batch are returned in strictly *)
(* increasing numeric order, for timestamps whose seconds are below 2^31.  *)
(***************************************************************************)
C17_BatchIncreasing ==
  \A c \in Callers :
    ( /\ Succeeded(c)
      /\ \A k \in DOMAIN log[c] : Lt64(log[c][k].ms, TWrap) )
    => \A k \in 1 .. (Len(call[c].ret) - 1) : Lt64(call[c].ret[k], call[c].ret[k + 1])

\* attempt k of caller c ran to the end of the loop body without an error
NoErrorAttempt(c, k) == log[c][k].out \in {"emit", "discard"}

(***************************************************************************)
(* C18  Loop accounting: after every attempt that does not return an       *)
(* error, the identifiers collected plus leftNum make up count, with       *)
(* 0 <= leftNum <= count; an attempt that is not discarded emits at least  *)
(* one identifier and strictly decreases leftNum, a discarded one leaves   *)
(* both alone; the delta passed to the store is between 1 and count.       *)
(***************************************************************************)
C18_LoopAccounting ==
  \A c \in Callers :
    /\ \A k \in DOMAIN log[c] :
         LET e == log[c][k]
             before == IF k = 1 THEN 0 ELSE call[c].counts - log[c][k - 1].left
         IN  /\ e.delta >= 1 /\ e.delta <= call[c].counts
             /\ NoErrorAttempt(c, k) =>
                  /\ before + e.n + e.left = call[c].counts
                  /\ e.left >= 0 /\ e.left <= call[c].counts
                  /\ IF e.counter - e.delta > maxCounter
                       THEN e.n = 0 /\ e.left = e.delta
                       ELSE e.n >= 1 /\ e.left < e.delta
    /\ (call[c].pc = "loop" \/ (Done(c) /\ call[c].err \in {"none", "exhaust"})) =>
         /\ Len(call[c].ids) + call[c].leftNum = call[c].counts
         /\ call[c].leftNum >= 0 /\ call[c].leftNum <= call[c].counts

\* a call that filled the rest of a bucket, was discarded on it, and finished
\* in a third attempt
C18_Witness ==
  \E c \in Callers :
    /\ Succeeded(c)
    /\ Len(log[c]) = 3
    /\ log[c][1].out = "emit" /\ log[c][1].left > 0
    /\ log[c][2].out = "discard"
    /\ log[c][3].out = "emit" /\ log[c][3].left = 0

(***************************************************************************)
(* C19  With a linearizable store whose counters are never reset, expired  *)
(* or decreased, the recycling error is unreachable: every increment       *)
(* returns a total of at least the delta it added (start >= 0).            *)
(***************************************************************************)
C19_NoRecycling ==
  \A c \in Callers :
    /\ call[c].err # "recycle"
    /\ \A k \in DOMAIN log[c] :
         /\ log[c][k].out # "recycle"
         /\ (log[c][k].applied /\ log[c][k].out # "store") =>
              log[c][k].counter >= log[c][k].delta

\* two calls went through the same fresh bucket: the first got exactly its
\* delta back (start = 0), the second a greater total, and both succeeded
C19_Witness ==
  \E c, d \in Callers :
    /\ c # d /\ Succeeded(c) /\ Succeeded(d)
    /\ log[c][1].ms = log[d][1].ms /\ call[c].serverID = call[d].serverID
    /\ log[c][1].counter = log[c][1].delta
    /\ log[d][1].counter = log[c][1].counter + log[d][1].delta

\* the most identifiers one call can collect: 8 attempts of 256
MaxBatch == maxTimeAddrTimes * (maxCounter + 1)

\* the call of c ran to its return with no contention: every increment was
\* answered and found its bucket fresh
Uncontended(c) ==
  /\ Done(c)
  /\ call[c].err \notin {"pick", "store"}
  /\ \A k \in DOMAIN log[c] : log[c][k].counter = log[c][k].delta

(***************************************************************************)
(* C20  Spillover does not depend on the clock advancing: with no          *)
(* contention, a valid server id and a clock frozen at T for the whole     *)
(* call, GenMultiIDs(ctx, n) succeeds for every n up to 2048, using the    *)
(* consecutive buckets T, T+1, ... with 256 identifiers each and the rest  *)
(* in the last; and no call returns more than 8 * 256 = 2048 identifiers,  *)
(* so a request for more than 2048 fails.                                  *)
(***************************************************************************)
C20_FrozenClockSpillover ==
  \A c \in Callers :
    /\ (Uncontended(c) /\ ~ServerIDTooWide(c) /\ call[c].counts <= MaxBatch) =>
         /\ Succeeded(c)
         /\ Len(call[c].ret) = call[c].counts
         /\ Len(log[c]) = (call[c].counts + maxCounter) \div (maxCounter + 1)
         /\ \A k \in DOMAIN log[c] :
              /\ log[c][k].ms = Add64(TFrozen, FromInt(k - 1))
              /\ log[c][k].n = IF k < Len(log[c]) THEN maxCounter + 1
                               ELSE call[c].counts - (k - 1) * (maxCounter + 1)
    /\ Len(call[c].ret) <= MaxBatch /\ Len(call[c].ids) <= MaxBatch
    /\ (Done(c) /\ call[c].counts > MaxBatch) => (Errored(c) /\ call[c].ret = <<>>)

\* a batch of 2048 returned from eight full buckets under the frozen clock
C20_Witness ==
  \E c \in Callers :
    /\ Succeeded(c)
    /\ call[c].counts = MaxBatch
    /\ Len(call[c].ret) = MaxBatch
    /\ Len(log[c]) = maxTimeAddrTimes
    /\ log[c][maxTimeAddrTimes].ms = Add64(TFrozen, FromInt(maxTimeAddrTimes - 1))

====
